---- MODULE Spec2Model ----
\* Dyslexia screening app (src/app.py), a Streamlit script.  Every user
\* interaction executes the script again from its first line to its last;
\* the widget values (the checkbox, the number inputs) are the only state
\* that survives from one execution to the next.  Numbers are whole units;
\* a probability is the rational prob / ProbDen.
EXTENDS Integers, Sequences, FiniteSets, TLC

\* ---------------------------------------------------------------- bounds
MaxFeatures == 2   \* longest feature schema explored
ProbDen     == 100 \* resolution of the probabilities explored
MaxLoads    == 2   \* the count of loads saturates here

\* ------------------------------------------------------ program constants
AgeFallback  == 10  \* default_values.get("Age", 10.0) ... else 10.0
TaskFallback == 0   \* default_values.get(feature, 0.0) ... else 0.0
MinAge       == 5   \* min_value=5.0
MaxAge       == 18  \* max_value=18.0
TopK         == 10  \* .head(10)
max_chars    == 90

\* ------------------------------------------------------------ input sets
Names       == {"Age", "TaskA", "TaskB"}
TypicalAges == {7, 20}    \* ages a defaults file may record: inside and outside the widget's range
TypicalScores == {7}      \* task scores a defaults file may record
TypedAges   == {14}       \* ages a user may type, within [MinAge, MaxAge]
TypedScores == {3}        \* task scores a user may type
Instants    == {0, 1}     \* what datetime.utcnow() may return
Scores      == {1, 2}     \* entries of feature_importances_
\* what model.predict_proba may return, times ProbDen: the unit interval and
\* a step beyond each of its ends
Probs       == (0 - 1)..(ProbDen + 1)
\* the scores explored together with the rest of the script: one below the
\* unit interval, 0.1, 0.3, 0.6 and one above it
StubProbs   == {0 - 1, ProbDen \div 10, (3 * ProbDen) \div 10, (6 * ProbDen) \div 10, ProbDen + 1}
Elements    == {"class", "probability", "risk", "progress", "importances", "csv", "pdf"}

VARIABLES
  features,        \* json.load of features.json: the ordered schema
  default_values,  \* json.load of feature_defaults.json: a dict
  importances,     \* model.feature_importances_ of the loaded artifact
  loads,           \* how many times lines 180-186 have run (saturating)
  use_defaults,    \* state of the checkbox
  overrides,       \* dict: values the user typed into the number inputs
  status,          \* where the last execution of the script ended
  inputs,          \* the dict inputs, in insertion order
  shown,           \* elements of the results card the last execution rendered
  prob,            \* model.predict_proba(input_df)[0][1], times ProbDen
  risk_level,
  fi_top,          \* the rows of fi_top, in order
  csv_timestamp,   \* instant in the "timestamp" column of the CSV
  pdf_timestamp,   \* instant in the "Generated (UTC)" line of the PDF
  txt,             \* the interpretation paragraph chosen for the PDF
  pdf_lines        \* the wrapped interpretation lines drawn into the PDF

vars == <<features, default_values, importances, loads, use_defaults,
          overrides, status, inputs, shown, prob, risk_level, fi_top,
          csv_timestamp, pdf_timestamp, txt, pdf_lines>>

Min(a, b) == IF a < b THEN a ELSE b

\* ----------------------------------------------------------------- dicts
EmptyDict == [k \in {} |-> 0]

\* dict.get(key, fallback)
get(d, key, fallback) == IF key \in DOMAIN d THEN d[key] ELSE fallback

\* d[key] = value
Put(d, key, value) ==
  [k \in DOMAIN d \cup {key} |-> IF k = key THEN value ELSE d[k]]

\* ------------------------------------------------- the files and artifact
\* feature schemas: non-empty, unique names
Schemas ==
  {s \in UNION {[1..n -> Names] : n \in 1..MaxFeatures} :
     \A i, j \in DOMAIN s : s[i] = s[j] => i = j}

\* default-value maps: any subset of the names may have an entry
DefaultMaps ==
  {d \in UNION {[S -> TypicalAges \cup TypicalScores] : S \in SUBSET Names} :
     \A k \in DOMAIN d :
        d[k] \in (IF k = "Age" THEN TypicalAges ELSE TypicalScores)}

\* importance vectors of the artifact; the script never checks its length
ImportanceVectors == UNION {[1..n -> Scores] : n \in 1..MaxFeatures}

\* ------------------------------------------------------- input assembly
\* st.number_input without a key: the typed value when there is one, else
\* the value= argument
number_input(ov, label, value) == get(ov, label, value)

\* line 214
age_default(ud, dv) == IF ud THEN get(dv, "Age", AgeFallback) ELSE AgeFallback

\* a bug: the typical score is used although the checkbox is off
base_val_ignoring_checkbox(ud, dv, feature) == get(dv, feature, TaskFallback)

\* line 228
base_val(ud, dv, feature) == IF ud THEN get(dv, feature, TaskFallback) ELSE TaskFallback

\* st.number_input("Age", value=..., min_value=5.0, max_value=18.0) raises
\* when its value= argument lies outside [min_value, max_value]
age_widget_raises(ud, dv) ==
  age_default(ud, dv) < MinAge \/ age_default(ud, dv) > MaxAge

IsTask(feature) == feature # "Age"

\* lines 210-229: inputs["Age"] first, then one entry per feature that is
\* not "Age", in the order of features
assemble(fs, ud, dv, ov) ==
  LET tasks == SelectSeq(fs, IsTask)
  IN  <<[name |-> "Age", value |-> number_input(ov, "Age", age_default(ud, dv))]>>
      \o [i \in 1..Len(tasks) |->
            [name |-> tasks[i],
             value |-> number_input(ov, tasks[i], base_val(ud, dv, tasks[i]))]]

\* the column labels of pd.DataFrame([inputs])
columns(inp) == [i \in 1..Len(inp) |-> inp[i].name]

\* ------------------------------------------------------- risk level
\* a bug: the upper bound of a band is taken to belong to it
risk_tier_inclusive_above(p) ==
  IF p * 10 <= 3 * ProbDen THEN "Low"
  ELSE IF p * 10 <= 6 * ProbDen THEN "Moderate"
  ELSE "High"

\* lines 248-256: prob < 0.3, elif prob < 0.6, else
risk_tier(p) ==
  IF p * 10 < 3 * ProbDen THEN "Low"
  ELSE IF p * 10 < 6 * ProbDen THEN "Moderate"
  ELSE "High"

\* st.progress(float(prob)) raises unless 0.0 <= prob <= 1.0
progress_raises(p) == p < 0 \/ p > ProbDen

\* ------------------------------------------------------- importances
\* sort_values("importance", ascending=False) with pandas' default
\* kind="quicksort", which is not a stable sort: every arrangement of the
\* rows with non-increasing importance is a possible outcome
sort_orders(imp) ==
  {o \in [1..Len(imp) -> 1..Len(imp)] :
     /\ \A i, j \in 1..Len(imp) : o[i] = o[j] => i = j
     /\ \A i, j \in 1..Len(imp) : i < j => imp[o[i]] >= imp[o[j]]}

\* lines 263-264, for one outcome of the sort
top_features(fs, imp, order) ==
  LET sorted == [k \in 1..Len(imp) |->
                   [feature |-> fs[order[k]], importance |-> imp[order[k]]]]
  IN  SubSeq(sorted, 1, Min(TopK, Len(sorted)))

\* ------------------------------------------------------- PDF text
\* txt for risk level Low (126 characters)
txt_Low ==
  <<
     "P", "a", "t", "t", "e", "r", "n", " ", "l", "o", "o", "k", "s", " ", "s", "i",
     "m", "i", "l", "a", "r", " ", "t", "o", " ", "n", "o", "n", "-", "d", "y", "s",
     "l", "e", "x", "i", "c", " ", "s", "t", "u", "d", "e", "n", "t", "s", " ", "i",
     "n", " ", "t", "h", "e", " ", "d", "a", "t", "a", "s", "e", "t", ".", " ", "T",
     "h", "i", "s", " ", "i", "s", " ", "n", "o", "t", " ", "a", " ", "d", "i", "a",
     "g", "n", "o", "s", "i", "s", ";", " ", "c", "o", "n", "t", "i", "n", "u", "e",
     " ", "m", "o", "n", "i", "t", "o", "r", "i", "n", "g", " ", "l", "i", "t", "e",
     "r", "a", "c", "y", " ", "p", "r", "o", "g", "r", "e", "s", "s", "." >>

\* txt for risk level Moderate (109 characters)
txt_Moderate ==
  <<
     "P", "a", "t", "t", "e", "r", "n", " ", "a", "p", "p", "e", "a", "r", "s", " ",
     "i", "n", " ", "b", "o", "t", "h", " ", "d", "y", "s", "l", "e", "x", "i", "c",
     " ", "a", "n", "d", " ", "n", "o", "n", "-", "d", "y", "s", "l", "e", "x", "i",
     "c", " ", "s", "t", "u", "d", "e", "n", "t", "s", ".", " ", "C", "o", "n", "s",
     "i", "d", "e", "r", " ", "f", "u", "r", "t", "h", "e", "r", " ", "s", "c", "r",
     "e", "e", "n", "i", "n", "g", " ", "a", "n", "d", " ", "c", "l", "o", "s", "e",
     "r", " ", "m", "o", "n", "i", "t", "o", "r", "i", "n", "g", "." >>

\* txt for risk level High (141 characters)
txt_High ==
  <<
     "P", "a", "t", "t", "e", "r", "n", " ", "i", "s", " ", "s", "i", "m", "i", "l",
     "a", "r", " ", "t", "o", " ", "s", "t", "u", "d", "e", "n", "t", "s", " ", "l",
     "a", "b", "e", "l", "e", "d", " ", "w", "i", "t", "h", " ", "d", "y", "s", "l",
     "e", "x", "i", "a", " ", "i", "n", " ", "t", "h", "e", " ", "d", "a", "t", "a",
     "s", "e", "t", ".", " ", "R", "e", "c", "o", "m", "m", "e", "n", "d", " ", "f",
     "o", "l", "l", "o", "w", "-", "u", "p", " ", "w", "i", "t", "h", " ", "a", " ",
     "q", "u", "a", "l", "i", "f", "i", "e", "d", " ", "p", "r", "o", "f", "e", "s",
     "s", "i", "o", "n", "a", "l", " ", "f", "o", "r", " ", "a", " ", "f", "u", "l",
     "l", " ", "a", "s", "s", "e", "s", "s", "m", "e", "n", "t", "." >>

\* lines 321-335
interpretation(level) ==
  IF level = "Low" THEN txt_Low
  ELSE IF level = "Moderate" THEN txt_Moderate
  ELSE txt_High

\* a bug: each slice is one character short of the stride
lines_clipped(s) ==
  [k \in 1..((Len(s) + max_chars - 1) \div max_chars) |->
     SubSeq(s, (k - 1) * max_chars + 1, Min(k * max_chars - 1, Len(s)))]

\* line 339: [txt[i:i+max_chars] for i in range(0, len(txt), max_chars)]
lines(s) ==
  [k \in 1..((Len(s) + max_chars - 1) \div max_chars) |->
     SubSeq(s, (k - 1) * max_chars + 1, Min(k * max_chars, Len(s)))]

\* --------------------------------------------------- one script execution
NoExports ==
  /\ fi_top' = <<>>
  /\ csv_timestamp' = 0 /\ pdf_timestamp' = 0
  /\ txt' = <<>> /\ pdf_lines' = <<>>

NoResults ==
  /\ shown' = {}
  /\ prob' = 0 /\ risk_level' = ""
  /\ NoExports

\* lines 239-240: model.predict or model.predict_proba raises
PredictRaises ==
  /\ status' = "predict_error"
  /\ NoResults

\* lines 242-259: the class, the probability and the risk level are
\* written, then st.progress raises
ProgressRaises(p) ==
  /\ progress_raises(p)
  /\ status' = "progress_error"
  /\ shown' = {"class", "probability", "risk"}
  /\ prob' = p /\ risk_level' = risk_tier(p)
  /\ NoExports

\* lines 242-263: pd.DataFrame raises, its two columns differ in length
ImportancesRaise(p) ==
  /\ ~progress_raises(p)
  /\ Len(importances) # Len(features)
  /\ status' = "importance_error"
  /\ shown' = {"class", "probability", "risk", "progress"}
  /\ prob' = p /\ risk_level' = risk_tier(p)
  /\ NoExports

\* lines 242-363 run to the end; datetime.utcnow() is called at line 273
\* and again at line 301, and time may pass between the two calls
AllResults(p) ==
  /\ ~progress_raises(p)
  /\ Len(importances) = Len(features)
  /\ status' = "done"
  /\ shown' = Elements
  /\ prob' = p /\ risk_level' = risk_tier(p)
  /\ \E order \in sort_orders(importances) :
        fi_top' = top_features(features, importances, order)
  /\ \E now \in Instants, later \in Instants :
        /\ now <= later
        /\ csv_timestamp' = now
        /\ pdf_timestamp' = later
  /\ txt' = interpretation(risk_tier(p))
  /\ pdf_lines' = lines(interpretation(risk_tier(p)))

\* lines 236-363, the body of "if predict_clicked:"
Results ==
  \/ \E p \in StubProbs : AllResults(p)
  \/ \E p \in StubProbs : ImportancesRaise(p)
  \/ \E p \in StubProbs : ProgressRaises(p)
  \/ PredictRaises

\* the whole script, run with the given widget values
RunScript(ud, ov, predict_clicked) ==
  /\ loads' = Min(loads + 1, MaxLoads)                      \* lines 180-186
  /\ UNCHANGED <<features, default_values, importances>>    \* same files
  /\ use_defaults' = ud
  /\ overrides' = ov
  /\ IF age_widget_raises(ud, default_values)
     THEN /\ status' = "input_error"
          /\ inputs' = <<>>
          /\ NoResults
     ELSE /\ inputs' = assemble(features, ud, default_values, ov)
          /\ IF predict_clicked
             THEN Results
             ELSE status' = "idle" /\ NoResults

\* ------------------------------------------------------------ the session
\* the first execution of the script, with no interaction yet
Init ==
  /\ features \in Schemas
  /\ default_values \in DefaultMaps
  /\ importances \in ImportanceVectors
  /\ loads = 1
  /\ use_defaults = TRUE
  /\ overrides = EmptyDict
  /\ IF age_widget_raises(TRUE, default_values)
     THEN status = "input_error" /\ inputs = <<>>
     ELSE status = "idle"
          /\ inputs = assemble(features, TRUE, default_values, EmptyDict)
  /\ shown = {}
  /\ prob = 0 /\ risk_level = "" /\ fi_top = <<>>
  /\ csv_timestamp = 0 /\ pdf_timestamp = 0
  /\ txt = <<>> /\ pdf_lines = <<>>

\* the widgets after the age input exist only when line 215 did not raise
RenderedInputs == status # "input_error"

\* the user ticks or unticks the checkbox (line 212)
ToggleDefaults ==
  /\ use_defaults \in BOOLEAN
  /\ RunScript(~use_defaults, overrides, FALSE)

\* the user types an age (lines 215-221)
TypeAge ==
  /\ RenderedInputs
  /\ \E v \in TypedAges : RunScript(use_defaults, Put(overrides, "Age", v), FALSE)

\* the user types a task score (line 229)
TypeScore ==
  /\ RenderedInputs
  /\ \E i \in 1..Len(features), v \in TypedScores :
       /\ IsTask(features[i])
       /\ RunScript(use_defaults, Put(overrides, features[i], v), FALSE)

\* the user clicks Predict (line 231)
ClickPredict ==
  /\ RenderedInputs
  /\ RunScript(use_defaults, overrides, TRUE)

\* the user clicks a download button (lines 282, 358): Streamlit serves the
\* bytes it was given and executes the script again, with Predict not clicked
ClickDownload ==
  /\ \E button \in {"csv", "pdf"} : button \in shown
  /\ RunScript(use_defaults, overrides, FALSE)

Next ==
  \/ ToggleDefaults
  \/ TypeAge
  \/ TypeScore
  \/ ClickPredict
  \/ ClickDownload

Spec == Init /\ [][Next]_vars

\* ------------------------------------------- the risk level, on its own
\* lines 240-256 for every score of the grid, the rest of the script aside
FixedSession ==
  /\ features = <<"Age">> /\ default_values = EmptyDict /\ importances = <<1>>
  /\ loads = 1 /\ use_defaults = TRUE /\ overrides = EmptyDict
  /\ status = "idle"
  /\ inputs = assemble(<<"Age">>, TRUE, EmptyDict, EmptyDict)
  /\ fi_top = <<>> /\ csv_timestamp = 0 /\ pdf_timestamp = 0

InitClassify ==
  /\ FixedSession
  /\ prob \in Probs
  /\ shown = {} /\ risk_level = ""
  /\ txt = <<>> /\ pdf_lines = <<>>

Classify ==
  /\ shown = {}
  /\ risk_level' = risk_tier(prob)
  /\ shown' = {"class", "probability", "risk"}
  /\ UNCHANGED <<features, default_values, importances, loads, use_defaults,
                 overrides, status, inputs, prob, fi_top, csv_timestamp,
                 pdf_timestamp, txt, pdf_lines>>

SpecClassify == InitClassify /\ [][Classify]_vars

\* ------------------------------------------- the wrapping, on its own
\* line 339 for the three paragraphs and every prefix of them
Prefixes(s) == {SubSeq(s, 1, n) : n \in 0..Len(s)}

Paragraphs == Prefixes(txt_Low) \cup Prefixes(txt_Moderate) \cup Prefixes(txt_High)

InitWrap ==
  /\ FixedSession
  /\ prob = 0 /\ risk_level = ""
  /\ shown = {}
  /\ txt \in Paragraphs
  /\ pdf_lines = <<>>

WrapText ==
  /\ shown = {}
  /\ pdf_lines' = lines(txt)
  /\ shown' = {"pdf"}
  /\ UNCHANGED <<features, default_values, importances, loads, use_defaults,
                 overrides, status, inputs, prob, risk_level, fi_top,
                 csv_timestamp, pdf_timestamp, txt>>

SpecWrap == InitWrap /\ [][WrapText]_vars


\* ------------------------------------------------------------ properties
RECURSIVE Flatten(_)
Flatten(ls) == IF ls = <<>> THEN <<>> ELSE Head(ls) \o Flatten(Tail(ls))

InSchema(name) == \E i \in 1..Len(features) : features[i] = name

\* position of a name in the schema
SchemaIndex(name) == CHOOSE i \in 1..Len(features) : features[i] = name

\* the script went on to the body of "if predict_clicked:" and handed
\* pd.DataFrame([inputs]) to the model
HandedToInference == status \notin {"idle", "input_error"}

\* C1: once a risk level is assigned for a probability within [0,1], it is
\* Low exactly when p < 0.30, Moderate exactly when 0.30 <= p < 0.60 and
\* High exactly when p >= 0.60, and it is one of the three.
C1_RiskBands ==
  ("risk" \in shown /\ 0 <= prob /\ prob <= ProbDen) =>
     /\ risk_level \in {"Low", "Moderate", "High"}
     /\ risk_level = "Low" <=> 100 * prob < 30 * ProbDen
     /\ risk_level = "Moderate" <=> (30 * ProbDen <= 100 * prob /\ 100 * prob < 60 * ProbDen)
     /\ risk_level = "High" <=> 60 * ProbDen <= 100 * prob

\* C1: the two boundary scores 0.3 and 0.6 have been classified
C1_Witness ==
  /\ "risk" \in shown
  /\ \/ 10 * prob = 3 * ProbDen /\ risk_level = "Moderate"
     \/ 10 * prob = 6 * ProbDen /\ risk_level = "High"

\* C2: the feature vector handed to inference has exactly the schema's
\* names, in the schema's order.
C2_VectorMatchesSchema ==
  HandedToInference => columns(inputs) = features

C4_SingleTimestamp ==
  ("csv" \in shown /\ "pdf" \in shown) => csv_timestamp = pdf_timestamp

\* C5: the ranking has min(k, schema size) entries, sorted descending by
\* score, and of two entries with equal scores the one earlier in the schema
\* comes first.
C5_StableTopK ==
  "importances" \in shown =>
    /\ Len(fi_top) = Min(TopK, Len(features))
    /\ \A a, b \in 1..Len(fi_top) :
         a < b =>
           /\ fi_top[a].importance >= fi_top[b].importance
           /\ fi_top[a].importance = fi_top[b].importance =>
                SchemaIndex(fi_top[a].feature) < SchemaIndex(fi_top[b].feature)

\* C6: when the vector's names do not exactly match the schema, inference
\* fails and no prediction, risk level or export is produced.
C6_MismatchFailsInference ==
  (HandedToInference /\ columns(inputs) # features) =>
     (status = "predict_error" /\ shown = {})

\* C7: a screening yields the complete results with both exports, or
\* nothing at all.
C7_AllOrNothing == shown = {} \/ shown = Elements

\* C8: for a probability outside [0,1] no risk level is assigned.
C8_DomainError ==
  (HandedToInference /\ "probability" \in shown /\ (prob < 0 \/ prob > ProbDen)) =>
     ("risk" \notin shown /\ risk_level = "")

\* C9: every line drawn for the interpretation paragraph has at most 90
\* characters, and the lines put end to end are the paragraph.
C9_WrapKeepsText ==
  "pdf" \in shown =>
    /\ \A k \in 1..Len(pdf_lines) : Len(pdf_lines[k]) <= 90
    /\ Flatten(pdf_lines) = txt

\* C9: a paragraph longer than one line was wrapped, its first line full
C9_Witness ==
  /\ "pdf" \in shown
  /\ Len(txt) > 90
  /\ Len(pdf_lines) = 2
  /\ Len(pdf_lines[1]) = 90

\* C10: the model, the schema and the default values are loaded at most
\* once in a session.
C10_LoadedOnce == loads <= 1

====
